---- MODULE Spec2Model ----
(***************************************************************************)
(* A model of bitwise_enum.hpp: the trait enable_enum_bitwise_operators,   *)
(* the eight operator templates it gates, and the registration macro       *)
(* ENABLE_ENUM_BITWISE_OPERATORS.                                          *)
(*                                                                         *)
(* Two levels are modelled.  The translation level follows a translation   *)
(* unit declaration by declaration: which specializations of the trait     *)
(* exist, and for every operator expression which candidate overload       *)
(* resolution selects.  The evaluation level follows one call of an        *)
(* operator on values: the casts to the underlying type, the integral      *)
(* promotion to int, the built-in operation on the 32-bit two's complement *)
(* pattern and the cast back to the enum.                                  *)
(***************************************************************************)
EXTENDS Integers, Sequences, FiniteSets, TLC

VARIABLES
    specialized,    \* types with an explicit specialization of the trait
    instantiated,   \* types whose primary trait template was implicitly instantiated
    last,           \* the translation step just made and what the compiler said
    pc,             \* statements of the documented main() compiled and run so far
    consts,         \* the constexpr variables of the documented main()
    rejected,       \* statements of the documented main() the compiler rejected
    failed,         \* assertions of the documented main() that were false
    mem,            \* evaluation level: the enum variables of the running function
    call,           \* evaluation level: the operator call just made
    ret             \* evaluation level: what that call returned

vars == <<specialized, instantiated, last, pc, consts, rejected, failed, mem, call, ret>>

-----------------------------------------------------------------------------
(* The types a consumer may hand to the templates.                         *)

\* The two enum classes of the documented example, both ": uint8_t".
ExampleEnums == {"foo", "bar"}

\* enum class types (scoped, always with a fixed underlying type).
ScopedEnums == ExampleEnums \cup {"flags16"}

\* Unscoped enums ("enum plain : uint8_t"): std::is_enum is true of them too.
UnscopedEnums == {"plain"}

\* The integer types that occur as underlying types or as raw operands.
IntegerTypes == {"uint8_t", "uint16_t", "int"}

\* std::is_enum<T>::value
is_enum(t) == t \in ScopedEnums \cup UnscopedEnums

\* std::underlying_type_t<enum_t>
underlying_type_t(t) ==
    CASE t \in ExampleEnums -> "uint8_t"
      [] t = "plain"        -> "uint8_t"
      [] t = "flags16"      -> "uint16_t"

\* Width in bits of int, the type every narrower operand is promoted to.
IntBits == 32

\* Width in bits of an integer type.
Width(t) ==
    CASE t = "uint8_t"  -> 8
      [] t = "uint16_t" -> 16
      [] t = "int"      -> IntBits

-----------------------------------------------------------------------------
(* Values carry their type: [t |-> type, v |-> number].                    *)

Val(t, v) == [t |-> t, v |-> v]

\* The type a value of type t is stored as.
Repr(t) == IF is_enum(t) THEN underlying_type_t(t) ELSE t

\* A cast that keeps the value and does not convert it to T's representation.
static_cast_unwrapped(T, x) == Val(T, x.v)

\* static_cast<T>(x) between an enum with a fixed underlying type and integer
\* types: the value is converted to T's representation, modulo 2^w when that
\* representation is unsigned; every source value here fits int.
static_cast(T, x) ==
    IF Repr(T) = "int"
        THEN Val(T, x.v)
        ELSE Val(T, x.v % (2 ^ Width(Repr(T))))

\* Integral promotion of an operand of a built-in operator: a type narrower
\* than int, all of whose values fit int, becomes int.
promote(x) == IF Width(x.t) < IntBits THEN Val("int", x.v) ELSE x

\* The two's complement pattern of an int is its sign bit, bit IntBits - 1,
\* and the number its low IntBits - 1 bits spell.
SignBit(v) == IF v < 0 THEN 1 ELSE 0

LowBits(v) == IF v >= 0 THEN v ELSE (v + 2 ^ (IntBits - 2)) + 2 ^ (IntBits - 2)

\* The int a two's complement pattern stands for.
IntValue(sign, low) ==
    (IF sign = 1 THEN (0 - 2 ^ (IntBits - 2)) - 2 ^ (IntBits - 2) ELSE 0) + low

\* The low n bits of p and q combined bit by bit.
RECURSIVE OrBits(_, _, _)
OrBits(p, q, n) ==
    IF n = 0 THEN 0
    ELSE (IF p % 2 = 1 \/ q % 2 = 1 THEN 1 ELSE 0) + 2 * OrBits(p \div 2, q \div 2, n - 1)

RECURSIVE AndBits(_, _, _)
AndBits(p, q, n) ==
    IF n = 0 THEN 0
    ELSE (IF p % 2 = 1 /\ q % 2 = 1 THEN 1 ELSE 0) + 2 * AndBits(p \div 2, q \div 2, n - 1)

RECURSIVE XorBits(_, _, _)
XorBits(p, q, n) ==
    IF n = 0 THEN 0
    ELSE (IF p % 2 # q % 2 THEN 1 ELSE 0) + 2 * XorBits(p \div 2, q \div 2, n - 1)

RECURSIVE ComplBits(_, _)
ComplBits(p, n) ==
    IF n = 0 THEN 0
    ELSE (1 - (p % 2)) + 2 * ComplBits(p \div 2, n - 1)

\* The built-in operators |, &, ^ and ~ on promoted operands.
builtin_or(a, b) ==
    Val("int", IntValue(OrBits(SignBit(a.v), SignBit(b.v), 1),
                        OrBits(LowBits(a.v), LowBits(b.v), IntBits - 1)))

builtin_and(a, b) ==
    Val("int", IntValue(AndBits(SignBit(a.v), SignBit(b.v), 1),
                        AndBits(LowBits(a.v), LowBits(b.v), IntBits - 1)))

builtin_xor(a, b) ==
    Val("int", IntValue(XorBits(SignBit(a.v), SignBit(b.v), 1),
                        XorBits(LowBits(a.v), LowBits(b.v), IntBits - 1)))

builtin_compl(a) ==
    Val("int", IntValue(ComplBits(SignBit(a.v), 1),
                        ComplBits(LowBits(a.v), IntBits - 1)))

-----------------------------------------------------------------------------
(* The operator templates, for enum_t the type of the operands.            *)

\* The operands added instead of combined bit by bit.
operator_or_plus(lhs, rhs) ==
    LET U == underlying_type_t(lhs.t)
    IN  static_cast(lhs.t, Val("int", promote(static_cast(U, lhs)).v
                                       + promote(static_cast(U, rhs)).v))

\* operator|
operator_or(lhs, rhs) ==
    LET U == underlying_type_t(lhs.t)
    IN  static_cast(lhs.t, builtin_or(promote(static_cast(U, lhs)),
                                      promote(static_cast(U, rhs))))

\* operator&
operator_and(lhs, rhs) ==
    LET U == underlying_type_t(lhs.t)
    IN  static_cast(lhs.t, builtin_and(promote(static_cast(U, lhs)),
                                       promote(static_cast(U, rhs))))

\* The operands subtracted instead of combined bit by bit.
operator_xor_minus(lhs, rhs) ==
    LET U == underlying_type_t(lhs.t)
    IN  static_cast(lhs.t, Val("int", promote(static_cast(U, lhs)).v
                                       - promote(static_cast(U, rhs)).v))

\* operator^
operator_xor(lhs, rhs) ==
    LET U == underlying_type_t(lhs.t)
    IN  static_cast(lhs.t, builtin_xor(promote(static_cast(U, lhs)),
                                       promote(static_cast(U, rhs))))

\* operator~
operator_compl(val) ==
    LET U == underlying_type_t(val.t)
    IN  static_cast(val.t, builtin_compl(promote(static_cast(U, val))))

\* A test of the lowest bit instead of the whole value.
operator_not_low_bit(val) ==
    LET U == underlying_type_t(val.t)
    IN  promote(static_cast(U, val)).v % 2 = 0

\* operator!
operator_not(val) ==
    LET U == underlying_type_t(val.t)
    IN  promote(static_cast(U, val)).v = promote(static_cast(U, Val("int", 0))).v

-----------------------------------------------------------------------------
(* The trait and overload resolution.                                      *)

\* The types the registration macro is applied to.
TypeNames == {"foo", "bar", "plain", "int", "uint8_t"}

\* The types of the operands of expressions: two enum classes, an unscoped
\* enum, and the raw integer type beneath all three.
OperandTypes == {"foo", "bar", "plain", "uint8_t"}

\* The eight operators and an operator+ template beside them.
TemplateOperatorsAndPlus == {"|", "|=", "&", "&=", "^", "^=", "~", "!", "+"}

\* The eight operators the header defines templates for.
TemplateOperators == {"|", "|=", "&", "&=", "^", "^=", "~", "!"}

BinaryBitwise == {"|", "&", "^"}
CompoundBitwise == {"|=", "&=", "^="}
UnaryOperators == {"~", "!"}
Arithmetic == {"+", "-", "*", "/", "%"}
Shifts == {"<<", ">>"}
Relational == {"==", "<"}
BinaryOperators == BinaryBitwise \cup CompoundBitwise \cup Arithmetic \cup Shifts

\* struct enable_enum_bitwise_operators<enum_t>: the specialization the macro
\* defines where there is one, the primary template otherwise.
enable_enum_bitwise_operators(enum_t) ==
    IF enum_t \in specialized THEN [value |-> TRUE] ELSE [value |-> FALSE]

\* enable_enum_bitwise_operators_v<enum_t>
enable_enum_bitwise_operators_v(enum_t) ==
    enable_enum_bitwise_operators(enum_t).value

\* Deduction from the left operand alone.
DeduceFromLhs(op, lt, rt) == lt

\* Template argument deduction of enum_t from the operands: both parameters of
\* a binary operator are references to enum_t, so the operand types must
\* agree exactly; no conversion is considered.  rt is "" for a unary operator.
Deduce(op, lt, rt) ==
    IF op \in UnaryOperators \/ lt = rt THEN lt ELSE "fail"

\* An operator function is looked up only when an operand has enumeration
\* (or class) type.
ConsidersOverloads(lt, rt) == is_enum(lt) \/ is_enum(rt)

\* The return type without std::enable_if_t.
ReturnTypeUngated(op, enum_t) ==
    CASE op \in CompoundBitwise -> "void"
      [] op = "!"               -> "bool"
      [] OTHER                  -> enum_t

\* The declared return type of an operator template: std::enable_if_t<
\* enable_enum_bitwise_operators_v<enum_t>, R>, which names no type when the
\* trait is false.
ReturnType(op, enum_t) ==
    IF ~enable_enum_bitwise_operators_v(enum_t) THEN "fail"
    ELSE CASE op \in CompoundBitwise -> "void"
           [] op = "!"               -> "bool"
           [] OTHER                  -> enum_t

\* The operator template is a viable candidate for the operands.
Viable(op, lt, rt) ==
    /\ op \in TemplateOperators
    /\ ConsidersOverloads(lt, rt)
    /\ Deduce(op, lt, rt) # "fail"
    /\ ReturnType(op, Deduce(op, lt, rt)) # "fail"

\* A type with an implicit conversion to an integer: the integer types and
\* the unscoped enums.  An enum class has none.
Promotable(t) == t \in IntegerTypes \/ t \in UnscopedEnums

\* A type that is contextually convertible to bool.
BoolConvertible(t) == t = "bool" \/ Promotable(t)

\* The built-in candidate of the language is viable for the operands.
BuiltinViable(op, lt, rt) ==
    CASE op \in BinaryBitwise \cup Arithmetic \cup Shifts ->
            Promotable(lt) /\ Promotable(rt)
      [] op \in CompoundBitwise ->
            lt \in IntegerTypes /\ Promotable(rt)
      [] op \in Relational ->
            (Promotable(lt) /\ Promotable(rt)) \/ (is_enum(lt) /\ lt = rt)
      [] op = "~" -> Promotable(lt)
      [] op = "!" -> BoolConvertible(lt)

\* The type of the built-in operation.
BuiltinType(op, lt) ==
    CASE op \in BinaryBitwise \cup Arithmetic \cup Shifts \cup {"~"} -> "int"
      [] op \in CompoundBitwise -> lt
      [] op \in Relational \cup {"!"} -> "bool"

\* Overload resolution of "lhs op rhs" (or "op val"): the template binds its
\* operands by reference without conversion and is preferred where viable;
\* otherwise the built-in candidate; otherwise the expression is ill-formed.
Resolve(op, lt, rt) ==
    IF Viable(op, lt, rt)
        THEN [via |-> "template", type |-> ReturnType(op, Deduce(op, lt, rt))]
    ELSE IF BuiltinViable(op, lt, rt)
        THEN [via |-> "builtin", type |-> BuiltinType(op, lt)]
    ELSE [via |-> "none", type |-> "error"]

\* The specializations of the primary trait template that resolving the
\* expression instantiates: substituting the deduced enum_t into the return
\* type reads enable_enum_bitwise_operators<enum_t>::value.  An expression
\* the compiler rejects is not part of the translation unit and leaves none.
Instantiates(op, lt, rt) ==
    IF /\ Resolve(op, lt, rt).via # "none"
       /\ op \in TemplateOperators
       /\ ConsidersOverloads(lt, rt)
       /\ Deduce(op, lt, rt) # "fail"
       /\ Deduce(op, lt, rt) \notin specialized
        THEN {Deduce(op, lt, rt)}
        ELSE {}

Diagnostic(r) == IF r.via = "none" THEN "no match for operator" ELSE ""

-----------------------------------------------------------------------------
(* Translation steps.                                                      *)

Step(kind, op, lt, rt, r, diag) ==
    [kind |-> kind, op |-> op, lt |-> lt, rt |-> rt,
     via |-> r.via, type |-> r.type, diag |-> diag]

NoResult == [via |-> "none", type |-> "error"]

\* The specialization without its static_assert.
RegisterDiagnosticNoAssert(t) ==
    IF t \in specialized THEN "redefinition"
    ELSE IF t \in instantiated THEN "specialization after instantiation"
    ELSE ""

\* What the compiler says of ENABLE_ENUM_BITWISE_OPERATORS(t) at namespace
\* scope: the static_assert of the specialization fails, the specialization
\* is defined a second time, or it follows a use that instantiated the
\* primary template for t (ill-formed, and an error in GCC, Clang and MSVC).
RegisterDiagnostic(t) ==
    IF ~is_enum(t) THEN "enum_t must be an enum."
    ELSE IF t \in specialized THEN "redefinition"
    ELSE IF t \in instantiated THEN "specialization after instantiation"
    ELSE ""

\* ENABLE_ENUM_BITWISE_OPERATORS(t);
Register(t) ==
    /\ pc = 0
    /\ LET diag == RegisterDiagnostic(t)
       IN  /\ specialized' = IF diag = "" THEN specialized \cup {t} ELSE specialized
           /\ last' = Step("register", "", t, "",
                           IF diag = "" THEN [via |-> "macro", type |-> t] ELSE NoResult,
                           diag)
    /\ UNCHANGED <<instantiated, pc, consts, rejected, failed, mem, call, ret>>

\* An expression "lhs op rhs" with operands of types lt and rt.
UseBinary(op, lt, rt) ==
    /\ pc = 0
    /\ LET r == Resolve(op, lt, rt)
       IN  last' = Step("binary", op, lt, rt, r, Diagnostic(r))
    /\ instantiated' = instantiated \cup Instantiates(op, lt, rt)
    /\ UNCHANGED <<specialized, pc, consts, rejected, failed, mem, call, ret>>

\* An expression "op val" with an operand of type t.
UseUnary(op, t) ==
    /\ pc = 0
    /\ LET r == Resolve(op, t, "")
       IN  last' = Step("unary", op, t, "", r, Diagnostic(r))
    /\ instantiated' = instantiated \cup Instantiates(op, t, "")
    /\ UNCHANGED <<specialized, pc, consts, rejected, failed, mem, call, ret>>

\* A value of type t where a bool is expected, as in "if (val)".
BoolContext(t) ==
    /\ pc = 0
    /\ last' = Step("bool", "", t, "",
                    IF BoolConvertible(t) THEN [via |-> "builtin", type |-> "bool"]
                                          ELSE NoResult,
                    IF BoolConvertible(t) THEN "" ELSE "cannot convert to bool")
    /\ UNCHANGED <<specialized, instantiated, pc, consts, rejected, failed, mem, call, ret>>

-----------------------------------------------------------------------------
(* The documented example: main() of the header's \code block and of the   *)
(* README, statement by statement.                                         *)

Lit(t, v) == [k |-> "lit", t |-> t, v |-> v]
Var(n) == [k |-> "var", n |-> n]
Bin(op, l, r) == [k |-> "bin", op |-> op, l |-> l, r |-> r]
Un(op, e) == [k |-> "un", op |-> op, e |-> e]

\* enum class foo : uint8_t { FOO0 = 0b00, FOO1 = 0b01, FOO2 = 0b10 };
FOO0 == Lit("foo", 0)
FOO1 == Lit("foo", 1)
FOO2 == Lit("foo", 2)

Stmt(s, name, type, e, elems) ==
    [s |-> s, name |-> name, type |-> type, e |-> e, elems |-> elems]

\* The statements of main() that are not commented out.
ExampleMain ==
    << Stmt("constexpr", "foo1", "foo", FOO1, <<>>),
       Stmt("constexpr", "foo2", "foo", FOO2, <<>>),
       Stmt("constexpr", "foo3", "foo", Bin("|", FOO1, FOO2), <<>>),
       Stmt("static_assert", "", "", Bin("&", Var("foo3"), Var("foo1")), <<>>),
       Stmt("static_assert", "", "",
            Bin("==", Bin("&", Var("foo3"), Un("~", Var("foo2"))), Var("foo1")), <<>>),
       Stmt("static_assert", "", "", Un("!", Un("!", Var("foo1"))), <<>>),
       Stmt("static_assert", "", "", Un("!", FOO0), <<>>),
       Stmt("set", "foo_set", "foo", FOO0, <<FOO1, FOO2>>),
       Stmt("assert_count", "foo_set", "", FOO1, <<>>),
       Stmt("unordered_set", "foo_unordered_set", "foo", FOO0, <<FOO1, FOO2>>),
       Stmt("assert_count", "foo_unordered_set", "", FOO1, <<>>) >>

\* The type of an expression, "error" where it is ill-formed.
RECURSIVE TypeOf(_)
TypeOf(e) ==
    CASE e.k = "lit" -> e.t
      [] e.k = "var" -> IF e.n \in DOMAIN consts THEN consts[e.n].t ELSE "error"
      [] e.k = "bin" ->
            LET lt == TypeOf(e.l)
                rt == TypeOf(e.r)
            IN  IF lt = "error" \/ rt = "error" THEN "error"
                ELSE Resolve(e.op, lt, rt).type
      [] e.k = "un" ->
            LET t == TypeOf(e.e)
            IN  IF t = "error" THEN "error" ELSE Resolve(e.op, t, "").type

\* The value of a well-formed expression: a typed value, or a BOOLEAN for an
\* expression of type bool.
RECURSIVE Eval(_)
Eval(e) ==
    CASE e.k = "lit" -> Val(e.t, e.v)
      [] e.k = "var" -> consts[e.n]
      [] e.k = "bin" /\ e.op = "|"  -> operator_or(Eval(e.l), Eval(e.r))
      [] e.k = "bin" /\ e.op = "&"  -> operator_and(Eval(e.l), Eval(e.r))
      [] e.k = "bin" /\ e.op = "^"  -> operator_xor(Eval(e.l), Eval(e.r))
      [] e.k = "bin" /\ e.op = "==" -> Eval(e.l).v = Eval(e.r).v
      [] e.k = "un" /\ e.op = "~"   -> operator_compl(Eval(e.e))
      [] e.k = "un" /\ e.op = "!"   ->
            IF TypeOf(e.e) = "bool" THEN ~Eval(e.e) ELSE operator_not(Eval(e.e))

\* std::hash<T> is defined for the integer types and for every enum.
Hashable(t) == t \in IntegerTypes \/ is_enum(t)

\* The compiler accepts the statement.
Accepts(st) ==
    CASE st.s = "constexpr" -> TypeOf(st.e) = st.type
      [] st.s = "static_assert" -> BoolConvertible(TypeOf(st.e))
      [] st.s = "set" ->
            /\ Resolve("<", st.type, st.type).via # "none"
            /\ \A i \in DOMAIN st.elems : TypeOf(st.elems[i]) = st.type
      [] st.s = "unordered_set" ->
            /\ Hashable(st.type)
            /\ Resolve("==", st.type, st.type).via # "none"
            /\ \A i \in DOMAIN st.elems : TypeOf(st.elems[i]) = st.type
      [] st.s = "assert_count" ->
            /\ st.name \in DOMAIN consts
            /\ TypeOf(st.e) = consts[st.name].t

\* The condition of an accepted assertion is true.
Holds(st) ==
    CASE st.s = "static_assert" ->
            IF TypeOf(st.e) = "bool" THEN Eval(st.e) ELSE Eval(st.e).v # 0
      [] st.s = "assert_count" ->
            Cardinality({x \in consts[st.name].elems : x = Eval(st.e)}) # 0
      [] OTHER -> TRUE

\* What an accepted declaration adds to the variables of main().
Declares(st) ==
    CASE st.s = "constexpr" -> (st.name :> Eval(st.e))
      [] st.s \in {"set", "unordered_set"} ->
            (st.name :> [t |-> st.type,
                         elems |-> {Eval(st.elems[i]) : i \in DOMAIN st.elems}])
      [] OTHER -> << >>

\* The next statement of main(), in a translation unit that has registered
\* foo and bar as the example does.
ExampleStmt ==
    /\ ExampleEnums \subseteq specialized
    /\ pc < Len(ExampleMain)
    /\ LET st == ExampleMain[pc + 1]
           ok == Accepts(st)
       IN  /\ pc' = pc + 1
           /\ rejected' = IF ok THEN rejected ELSE rejected \cup {pc + 1}
           /\ failed' = IF ok /\ ~Holds(st) THEN failed \cup {pc + 1} ELSE failed
           /\ consts' = IF ok THEN Declares(st) @@ consts ELSE consts
           /\ last' = Step("statement", st.s, "", "",
                           IF ok THEN [via |-> "builtin", type |-> "void"] ELSE NoResult,
                           IF ok THEN "" ELSE "ill-formed statement")
    /\ UNCHANGED <<specialized, instantiated, mem, call, ret>>

-----------------------------------------------------------------------------
(* The evaluation level: one operator call in a function whose variables   *)
(* a, b and c have one registered enum type.                               *)

VarNames == {"a", "b", "c"}

\* The calls made: the left operand is a, the right operand a itself or b,
\* and c is a bystander.
LhsNames == {"a"}
RhsNames == {"a", "b"}

\* The enum types whose values are evaluated: uint8_t and uint16_t beneath.
EvalTypes == {"foo", "flags16"}

\* The operand bits that vary: the low MaxBits bits take every pattern, the
\* bits above them are all clear or all set.
MaxBits == 2

Operands(t) ==
    LET w == Width(underlying_type_t(t))
    IN  {low + high : low \in 0 .. (2 ^ MaxBits - 1), high \in {0, 2 ^ w - 2 ^ MaxBits}}

NoCall == [op |-> "", lhs |-> "", rhs |-> ""]
NoValue == [t |-> "none", v |-> 0]
Void == [t |-> "void", v |-> 0]

\* lhs | rhs, lhs & rhs, lhs ^ rhs: the operands are bound by const reference.
CallBinary(op, l, r) ==
    /\ call = NoCall
    /\ Resolve(op, mem[l].t, mem[r].t).via = "template"
    /\ call' = [op |-> op, lhs |-> l, rhs |-> r]
    /\ ret' = CASE op = "|" -> operator_or(mem[l], mem[r])
                [] op = "&" -> operator_and(mem[l], mem[r])
                [] op = "^" -> operator_xor(mem[l], mem[r])
    /\ UNCHANGED <<specialized, instantiated, last, pc, consts, rejected, failed, mem>>

\* The left operand taken by value: the assignment is lost.
CallCompoundByValue(op, l, r) ==
    /\ call = NoCall
    /\ Resolve(op, mem[l].t, mem[r].t).via = "template"
    /\ call' = [op |-> op, lhs |-> l, rhs |-> r]
    /\ ret' = Void
    /\ UNCHANGED <<specialized, instantiated, last, pc, consts, rejected, failed, mem>>

\* lhs |= rhs, lhs &= rhs, lhs ^= rhs: "lhs = lhs OP rhs;" and no return value.
CallCompound(op, l, r) ==
    /\ call = NoCall
    /\ Resolve(op, mem[l].t, mem[r].t).via = "template"
    /\ call' = [op |-> op, lhs |-> l, rhs |-> r]
    /\ mem' = [mem EXCEPT ![l] =
                 CASE op = "|=" -> operator_or(mem[l], mem[r])
                   [] op = "&=" -> operator_and(mem[l], mem[r])
                   [] op = "^=" -> operator_xor(mem[l], mem[r])]
    /\ ret' = Void
    /\ UNCHANGED <<specialized, instantiated, last, pc, consts, rejected, failed>>

\* ~val and !val: the operand is bound by const reference.
CallUnary(op, x) ==
    /\ call = NoCall
    /\ Resolve(op, mem[x].t, "").via = "template"
    /\ call' = [op |-> op, lhs |-> x, rhs |-> ""]
    /\ ret' = CASE op = "~" -> operator_compl(mem[x])
                [] op = "!" -> Val("bool", operator_not(mem[x]))
    /\ UNCHANGED <<specialized, instantiated, last, pc, consts, rejected, failed, mem>>

-----------------------------------------------------------------------------
(* Specifications.                                                         *)

NoStep == [kind |-> "none", op |-> "", lt |-> "", rt |-> "",
           via |-> "none", type |-> "error", diag |-> ""]

\* A translation unit that has included the header and declared nothing yet.
Init ==
    /\ specialized = {}
    /\ instantiated = {}
    /\ last = NoStep
    /\ pc = 0
    /\ consts = << >>
    /\ rejected = {}
    /\ failed = {}
    /\ mem = [n \in VarNames |-> Val("foo", 0)]
    /\ call = NoCall
    /\ ret = NoValue

Next ==
    \/ \E t \in TypeNames : Register(t)
    \/ \E op \in BinaryOperators, lt \in OperandTypes, rt \in OperandTypes :
            UseBinary(op, lt, rt)
    \/ \E op \in UnaryOperators, t \in OperandTypes : UseUnary(op, t)
    \/ \E t \in OperandTypes : BoolContext(t)
    \/ ExampleStmt

Spec == Init /\ [][Next]_vars

\* A function entered with a, b and c of one registered enum type.
EvalInit ==
    /\ specialized = EvalTypes
    /\ instantiated = {}
    /\ last = NoStep
    /\ pc = 0
    /\ consts = << >>
    /\ rejected = {}
    /\ failed = {}
    /\ \E t \in EvalTypes : mem \in [VarNames -> {Val(t, v) : v \in Operands(t)}]
    /\ call = NoCall
    /\ ret = NoValue

EvalNext ==
    \/ \E op \in BinaryBitwise, l \in LhsNames, r \in RhsNames : CallBinary(op, l, r)
    \/ \E op \in CompoundBitwise, l \in LhsNames, r \in RhsNames : CallCompound(op, l, r)
    \/ \E op \in UnaryOperators, x \in LhsNames : CallUnary(op, x)

EvalSpec == EvalInit /\ [][EvalNext]_vars

-----------------------------------------------------------------------------
(* The claims.                                                             *)

\* Bit i of a non-negative number.
Bit(v, i) == (v \div (2 ^ i)) % 2

\* The width in bits of the values of an enum type.
EnumWidth(t) == Width(underlying_type_t(t))

\* The second operand type of "t op t", none for a unary operator.
Same(op, t) == IF op \in UnaryOperators THEN "" ELSE t

\* The type has been registered and is an enum class.
RegisteredScoped(t) == t \in ScopedEnums /\ t \in specialized

SixBinary == BinaryBitwise \cup CompoundBitwise

EightListed == {"|", "|=", "&", "&=", "^", "^=", "~", "!"}

\* C1: each of the eight operator templates is a viable candidate for
\* operands of type T exactly when the trait query for T is true; the query
\* is false for every type at the start, becomes true for T only by the step
\* that registers T, and never for another type or by another step.
C1_GatedByTrait ==
    /\ \A t \in TypeNames : ~enable_enum_bitwise_operators_v(t)
    /\ [](\A op \in TemplateOperators, t \in TypeNames :
            Viable(op, t, Same(op, t)) <=> enable_enum_bitwise_operators_v(t))
    /\ [](/\ last.kind \in {"binary", "unary"}
          /\ last.op \in TemplateOperators
          /\ last.rt = Same(last.op, last.lt)
          => (last.via = "template" <=> enable_enum_bitwise_operators_v(last.lt)))
    /\ [](last.kind = "register" /\ last.diag = ""
          => enable_enum_bitwise_operators_v(last.lt))
    /\ [][\A t \in TypeNames :
            enable_enum_bitwise_operators_v(t)' # enable_enum_bitwise_operators_v(t)
            => /\ enable_enum_bitwise_operators_v(t)'
               /\ last'.kind = "register"
               /\ last'.lt = t
               /\ last'.diag = ""]_vars

\* foo is registered, bar is not, and "foo | foo" has just selected the template.
C1_Witness ==
    /\ last.kind = "binary" /\ last.op = "|"
    /\ last.lt = "foo" /\ last.rt = "foo"
    /\ last.via = "template"
    /\ "foo" \in specialized
    /\ ~enable_enum_bitwise_operators_v("bar")
    /\ ~Viable("|", "bar", "bar")

\* C2 as stated: for every registered enum, a binary operator applied to that
\* enum and an operand of another type (another enum or the raw integer) is
\* rejected, and a pair of operands of one registered type is accepted.
C2_MixedRejectedForEveryEnum ==
    last.kind = "binary" /\ last.op \in SixBinary
    => /\ (last.lt \in specialized \/ last.rt \in specialized) /\ last.lt # last.rt
          => last.via = "none"
       /\ last.lt = last.rt /\ last.lt \in specialized
          => last.via = "template"

\* C2 amended: for every registered enum class, a binary operator applied to
\* that enum and an operand of another type (another enum or the raw integer)
\* is rejected with "no match", and a pair of operands of one registered type
\* is accepted by the template.
C2_MixedRejectedForEnumClass ==
    last.kind = "binary" /\ last.op \in SixBinary
    => /\ (RegisteredScoped(last.lt) \/ RegisteredScoped(last.rt)) /\ last.lt # last.rt
          => last.via = "none" /\ last.diag = "no match for operator"
       /\ last.lt = last.rt /\ last.lt \in specialized
          => last.via = "template"

\* foo and bar are registered and "foo | bar" has just been rejected.
C2_Witness ==
    /\ last.kind = "binary" /\ last.op = "|"
    /\ last.lt = "foo" /\ last.rt = "bar"
    /\ {"foo", "bar"} \subseteq specialized
    /\ last.via = "none"

\* C3: x | y, x & y and x ^ y return a value of the operands' enum type whose
\* underlying value lies in 0 .. 2^w - 1 and has, at every bit position, the
\* OR, AND and XOR of the operands' bits, whether or not that value is named.
C3_BinaryIsBitwise ==
    call.op \in BinaryBitwise
    => LET x == mem[call.lhs]
           y == mem[call.rhs]
           w == EnumWidth(x.t)
       IN  /\ ret.t = x.t
           /\ ret.v \in 0 .. (2 ^ w - 1)
           /\ \A i \in 0 .. (w - 1) :
                Bit(ret.v, i) =
                    CASE call.op = "|" -> IF Bit(x.v, i) + Bit(y.v, i) > 0 THEN 1 ELSE 0
                      [] call.op = "&" -> Bit(x.v, i) * Bit(y.v, i)
                      [] call.op = "^" -> (Bit(x.v, i) + Bit(y.v, i)) % 2

\* A | B has just been evaluated to the unnamed pattern 0b11.
C3_Witness ==
    /\ call.op = "|"
    /\ mem[call.lhs] = Val("foo", 1)
    /\ mem[call.rhs] = Val("foo", 2)
    /\ ret = Val("foo", 3)

\* No two operands share a set bit.
Disjoint(x, y) == \A i \in 0 .. (EnumWidth(x.t) - 1) : Bit(x.v, i) * Bit(y.v, i) = 0

\* C4: ~x is the value 2^w - 1 - x of the operand's enum type, within
\* 0 .. 2^w - 1; ~(~x) is x; and (y | x) & ~x is y for every y that has no bit
\* in common with x.
C4_ComplementWithinWidth ==
    call.op = "~"
    => LET x == mem[call.lhs]
           w == EnumWidth(x.t)
       IN  /\ ret = Val(x.t, 2 ^ w - 1 - x.v)
           /\ ret.v \in 0 .. (2 ^ w - 1)
           /\ operator_compl(ret) = x
           /\ \A n \in VarNames :
                Disjoint(mem[n], x) => operator_and(operator_or(mem[n], x), ret) = mem[n]

\* ~B has just been evaluated for a uint8_t enum and a uint16_t enum, beside
\* an A that shares no bit with B.
C4_Witness ==
    /\ call.op = "~"
    /\ mem[call.lhs].v = 2
    /\ ret.v = 2 ^ EnumWidth(ret.t) - 3
    /\ ret.t = "flags16"
    /\ \E n \in VarNames : mem[n].v = 1

\* C5: !x is the bool that is true exactly when the underlying value of x is
\* zero, so !!x is true exactly when some bit of x is set.
C5_LogicalNot ==
    call.op = "!"
    => LET x == mem[call.lhs]
       IN  /\ ret.t = "bool"
           /\ ret.v <=> (x.v = 0)
           /\ (~ret.v) <=> (\E i \in 0 .. (EnumWidth(x.t) - 1) : Bit(x.v, i) = 1)

\* !x has just been evaluated to false for an x with only a high bit set.
C5_Witness ==
    /\ call.op = "!"
    /\ mem[call.lhs].v = 2 ^ EnumWidth(mem[call.lhs].t) - 2 ^ MaxBits
    /\ ret = Val("bool", FALSE)

\* C6: the registration macro applied to a type that is not an enum is
\* rejected with "enum_t must be an enum.", and the trait query is never true
\* for a type that is not an enum.
C6_NonEnumRejected ==
    /\ last.kind = "register" /\ ~is_enum(last.lt)
       => /\ last.via = "none"
          /\ last.diag = "enum_t must be an enum."
    /\ \A t \in TypeNames : ~is_enum(t) => ~enable_enum_bitwise_operators_v(t)

\* ENABLE_ENUM_BITWISE_OPERATORS(int) has just been rejected.
C6_Witness ==
    /\ last.kind = "register" /\ last.lt = "int"
    /\ last.diag = "enum_t must be an enum."
    /\ "foo" \in specialized

\* C7 as stated: only the eight listed operators select a template, and for
\* every registered type, an arithmetic or shift operator applied to its
\* values and a value of the type where a bool is expected are rejected.
C7_OnlyEightForEveryEnum ==
    /\ last.via = "template" => last.op \in EightListed
    /\ last.kind = "binary" /\ last.op \in Arithmetic \cup Shifts
       /\ (last.lt \in specialized \/ last.rt \in specialized)
       => last.via = "none"
    /\ last.kind = "bool" /\ last.lt \in specialized
       => last.via = "none"

\* C7 amended: only the eight listed operators select a template, and for
\* every registered enum class, an arithmetic or shift operator applied to
\* its values and a value of the type where a bool is expected are rejected.
C7_OnlyEightForEnumClass ==
    /\ last.via = "template" => last.op \in EightListed
    /\ last.kind = "binary" /\ last.op \in Arithmetic \cup Shifts
       /\ (RegisteredScoped(last.lt) \/ RegisteredScoped(last.rt))
       => last.via = "none" /\ last.diag = "no match for operator"
    /\ last.kind = "bool" /\ RegisteredScoped(last.lt)
       => last.via = "none" /\ last.diag = "cannot convert to bool"

\* foo is registered and "foo + foo" has just been rejected.
C7_Witness ==
    /\ last.kind = "binary" /\ last.op = "+"
    /\ last.lt = "foo" /\ last.rt = "foo"
    /\ "foo" \in specialized
    /\ last.via = "none"

\* C8: every statement of the documented main() is accepted and every one of
\* its assertions holds.
C8_ExampleAccepted ==
    pc = Len(ExampleMain) => rejected = {} /\ failed = {}

\* C9: on all values x, y, z of one registered enum type, | and & are
\* idempotent, x ^ x is ZERO, |, & and ^ are commutative and associative, and
\* & and | distribute over each other.  x and y are the operands of the call
\* just made, whose result is ret, and z is the third variable.
C9_BooleanAlgebra ==
    LET x == mem[call.lhs]
        y == mem[call.rhs]
        z == mem["c"]
    IN  /\ call.op = "|"
           => /\ call.lhs = call.rhs => ret = x
              /\ ret = operator_or(y, x)
              /\ operator_or(ret, z) = operator_or(x, operator_or(y, z))
              /\ operator_and(z, ret) = operator_or(operator_and(z, x), operator_and(z, y))
        /\ call.op = "&"
           => /\ call.lhs = call.rhs => ret = x
              /\ ret = operator_and(y, x)
              /\ operator_and(ret, z) = operator_and(x, operator_and(y, z))
              /\ operator_or(z, ret) = operator_and(operator_or(z, x), operator_or(z, y))
        /\ call.op = "^"
           => /\ call.lhs = call.rhs => ret = Val(x.t, 0)
              /\ ret = operator_xor(y, x)
              /\ operator_xor(ret, z) = operator_xor(x, operator_xor(y, z))

\* x ^ y has just been evaluated on three different values, one of them an
\* unnamed pattern with high bits set.
C9_Witness ==
    /\ call.op = "^"
    /\ call.lhs = "a" /\ call.rhs = "b"
    /\ mem["a"].v = 3
    /\ mem["b"].v = 2 ^ EnumWidth(mem["b"].t) - 2
    /\ mem["c"].v = 1
    /\ ret.v = 2 ^ EnumWidth(ret.t) - 3

\* C10: lhs OP= rhs leaves in lhs the OP of the old lhs and rhs, bit by bit,
\* changes no other variable and returns nothing, also when lhs and rhs are
\* one variable; |, &, ^, ~ and ! change no variable.
C10_CompoundFrame ==
    [][/\ call'.op \in CompoundBitwise
          => LET l == call'.lhs
                 r == call'.rhs
                 w == EnumWidth(mem[l].t)
             IN  /\ mem'[l].t = mem[l].t
                 /\ mem'[l].v \in 0 .. (2 ^ w - 1)
                 /\ \A i \in 0 .. (w - 1) :
                      Bit(mem'[l].v, i) =
                        CASE call'.op = "|=" ->
                                IF Bit(mem[l].v, i) + Bit(mem[r].v, i) > 0 THEN 1 ELSE 0
                          [] call'.op = "&=" -> Bit(mem[l].v, i) * Bit(mem[r].v, i)
                          [] call'.op = "^=" -> (Bit(mem[l].v, i) + Bit(mem[r].v, i)) % 2
                 /\ \A n \in VarNames \ {l} : mem'[n] = mem[n]
                 /\ ret' = Void
                 /\ l = r => mem'[l] = IF call'.op = "^=" THEN Val(mem[l].t, 0) ELSE mem[l]
       /\ call'.op \in BinaryBitwise \cup UnaryOperators => mem' = mem]_vars

\* a |= b has just set a to 0b11 beside an untouched b and c.
C10_Witness ==
    /\ call.op = "|="
    /\ call.lhs = "a" /\ call.rhs = "b"
    /\ mem["a"].v = 3 /\ mem["b"].v = 2 /\ mem["c"].v = 0
    /\ ret = Void

====
